---- MODULE Spec2Model ----
(***************************************************************************)
(* Model of the adaptive performance governance engine of newtools:        *)
(* PerformanceMonitor (src/assets/js/performance-monitor.js) and the       *)
(* animate/shouldAnimate pair of AnimationOptimizer (src/unnamed/part_001).*)
(* Every action is one callback of the single-threaded event loop.         *)
(***************************************************************************)
EXTENDS Integers, Sequences, FiniteSets, TLC

VARIABLES
    initialized,        \* PerformanceMonitor.init() has run
    env,                \* host hints read through navigator / matchMedia
    deviceTier,         \* performanceData.deviceTier
    isReducedMotion,    \* performanceData.isReducedMotion
    degradation,        \* config.degradation (the policy)
    activeAnimations,   \* performanceData.activeAnimations (a Set)
    fps,                \* performanceData.fps
    fpsHistory,         \* performanceData.fpsHistory
    anims,              \* the closures created by AnimationOptimizer.animate
    lastCall,           \* the callback that ran last and what it returned
    isMonitoring,       \* performanceData.isMonitoring
    fpsChains,          \* measureFPS callbacks waiting in requestAnimationFrame
    longTasks,          \* performanceData.longTasks
    taskClock,          \* entries delivered so far on the performance timeline
    css,                \* style variables and classes of document.documentElement
    consoleThrows,      \* the host's console methods throw when called
    resizeTimeout,      \* ms until the timer of the resize listener fires, or -1
    samplerTimers,      \* live setInterval timers calling samplePerformance
    loggingTimers       \* live setInterval timers writing the performance report

vars == <<initialized, env, deviceTier, isReducedMotion, degradation,
          activeAnimations, fps, fpsHistory, anims, lastCall,
          isMonitoring, fpsChains, longTasks, taskClock, css, consoleThrows,
          resizeTimeout, samplerTimers, loggingTimers>>

\* the state of the live sampler's chain and of the long-task observer
sampler == <<isMonitoring, fpsChains>>
observer == <<longTasks, taskClock>>
\* the pending resize timer and the two periodic timers
timers == <<resizeTimeout, samplerTimers, loggingTimers>>

(***************************************************************************)
(* Program constants                                                       *)
(***************************************************************************)
lowFPS == 30
mediumFPS == 50
highFPS == 58
fpsWindow == 2000
MinSamples == 5
HistoryCap == 30
DefaultFPS == 60
DefaultLimit == 3
AnimDuration == 300
DefaultCores == 2
DefaultMemory == 4
longTaskThreshold == 50
LongTaskCap == 10
ResizeDelay == 500

(***************************************************************************)
(* Bounds and input sets of the model                                      *)
(***************************************************************************)
MaxWindows == 5                 \* FPS windows closed in one behaviour
MaxSamplerWindows == 6          \* the same, for the sampler specification
MaxSlowWindows == 2             \* slow windows retained in a full-length history
MaxEntries == 13                \* timeline entries delivered in one behaviour
MaxPageEntries == 2             \* the same, for the visibility specification
MaxPageWindows == 2             \* FPS windows closed there
MaxChains == 2                  \* measureFPS chains requested in one behaviour
MaxStopWindows == 3             \* FPS windows closed around stopMonitoring
MaxResizeWindows == 5           \* FPS windows closed around the resize timer
MaxSwitches == 1                \* changes of frame rate in a retained history

Tiers == {"low", "medium", "high"}
Ids == {"a", "b"}               \* ticket ids handed to the controller
NoId == "none"                  \* animate() called without a ticket
Anims == {"x"}                  \* animate() closures alive at the same time
AnimPair == {"x", "y"}          \* the same, for the animation specification
FrameDeltas == {150, 300}       \* ms between two frames of an animation
Durations == {50, 51, 100, 101} \* benchmark durations in ms
FrameCounts == {50, 120}        \* frames counted in one window (25, 60 fps)
SamplerFrameCounts == {58, 60, 98, 100, 120}
RecoveryFrameCounts == {100, 114, 116, 120}  \* 50, 57, 58, 60 fps
SlowFrameCounts == {100}        \* a slow window (50 fps)
FastFrameCounts == {120}        \* a window at the display rate (60 fps)
ResponseFrameCounts == {58, 120} \* 29 and 60 fps
TimeSteps == {200, 300}         \* ms the event loop idles between callbacks
\* lists handed to the long-task observer: durations in ms of the entries
Batches == {<<80>>, <<50, 51>>}

\* hosts of the model: 8 cores, 8 GB, desktop, fast network
Envs ==
    [cores: {8}, memory: {8}, mobile: {FALSE},
     effectiveType: {"4g"}, matches: BOOLEAN]

\* hosts of the profiler specification; 0 is a hint the host does not expose
ProfilerEnvs ==
    [cores: {0, 2, 4}, memory: {0, 2, 4}, mobile: BOOLEAN,
     effectiveType: {"2g", "4g"}, matches: BOOLEAN]

(***************************************************************************)
(* Pure helpers                                                            *)
(***************************************************************************)
RECURSIVE Sum(_)
Sum(s) == IF s = <<>> THEN 0 ELSE Head(s) + Sum(Tail(s))

\* Math.round(n / d) for n >= 0, d > 0: halves round up
Round(n, d) == (2 * n + d) \div (2 * d)

Min(a, b) == IF a < b THEN a ELSE b

\* mutation: every absent hint falls back to 2
OrDefault_lowDefault(x, dflt) == IF x = 0 THEN 2 ELSE x

\* x || dflt on a numeric hint: an absent hint and 0 are both falsy
OrDefault(x, dflt) == IF x = 0 THEN dflt ELSE x

\* mutation: the mean is truncated instead of rounded
getAverageFPS_floor(history) ==
    IF Len(history) = 0 THEN DefaultFPS
    ELSE Sum(history) \div Len(history)

\* mutation: an empty history averages to 0
getAverageFPS_emptyIsZero(history) ==
    IF Len(history) = 0 THEN 0
    ELSE Round(Sum(history), Len(history))

getAverageFPS(history) ==
    IF Len(history) = 0 THEN DefaultFPS
    ELSE Round(Sum(history), Len(history))

detectLowEndDevice(e) ==
    \/ OrDefault(e.cores, DefaultCores) <= 2
    \/ OrDefault(e.memory, DefaultMemory) <= 2
    \/ e.effectiveType \in {"slow-2g", "2g"}

\* mutation: the mobile / low-end test overwrites the media query result
detectReducedMotion_overwrites(e) == e.mobile \/ detectLowEndDevice(e)

\* the value of isReducedMotion when detectReducedMotion returns
detectReducedMotion(e) ==
    IF e.mobile \/ detectLowEndDevice(e) THEN TRUE ELSE e.matches

\* mutation: the low threshold is inclusive (>= 100)
detectDevicePerformance_inclusiveLow(duration, e) ==
    LET t == IF duration >= 100 THEN "low"
             ELSE IF duration > 50 THEN "medium"
             ELSE "high"
    IN  IF (OrDefault(e.cores, DefaultCores) <= 2
            \/ OrDefault(e.memory, DefaultMemory) <= 2) /\ t = "high"
        THEN "medium" ELSE t

\* mutation: a benchmark above 100 ms yields medium, not low
detectDevicePerformance_slowIsMedium(duration, e) ==
    LET t == IF duration > 50 THEN "medium" ELSE "high"
    IN  IF (OrDefault(e.cores, DefaultCores) <= 2
            \/ OrDefault(e.memory, DefaultMemory) <= 2) /\ t = "high"
        THEN "medium" ELSE t

detectDevicePerformance(duration, e) ==
    LET t == IF duration > 100 THEN "low"
             ELSE IF duration > 50 THEN "medium"
             ELSE "high"
    IN  IF (OrDefault(e.cores, DefaultCores) <= 2
            \/ OrDefault(e.memory, DefaultMemory) <= 2) /\ t = "high"
        THEN "medium" ELSE t

\* mutation: the medium case forgets its concurrency limit
applyDegradationStrategy_mediumKeepsDefault(config, tier, rm) ==
    LET reset == [config EXCEPT !.disableComplexAnimations = FALSE,
                                !.reduceAnimationDuration = FALSE,
                                !.disableParallax = FALSE,
                                !.reduceBlurEffects = FALSE,
                                !.limitConcurrentAnimations = DefaultLimit]
    IN  IF rm
        THEN [reset EXCEPT !.disableComplexAnimations = TRUE,
                           !.disableParallax = TRUE,
                           !.reduceBlurEffects = TRUE,
                           !.limitConcurrentAnimations = 1]
        ELSE CASE tier = "low" ->
                    [reset EXCEPT !.disableComplexAnimations = TRUE,
                                  !.reduceAnimationDuration = TRUE,
                                  !.disableParallax = TRUE,
                                  !.reduceBlurEffects = TRUE,
                                  !.limitConcurrentAnimations = 1]
               [] tier = "medium" ->
                    [reset EXCEPT !.reduceAnimationDuration = TRUE,
                                  !.disableParallax = TRUE]
               [] OTHER ->
                    [reset EXCEPT !.limitConcurrentAnimations = 5]

\* mutation: the high case forgets its concurrency limit
applyDegradationStrategy_highKeepsDefault(config, tier, rm) ==
    LET reset == [config EXCEPT !.disableComplexAnimations = FALSE,
                                !.reduceAnimationDuration = FALSE,
                                !.disableParallax = FALSE,
                                !.reduceBlurEffects = FALSE,
                                !.limitConcurrentAnimations = DefaultLimit]
    IN  IF rm
        THEN [reset EXCEPT !.disableComplexAnimations = TRUE,
                           !.disableParallax = TRUE,
                           !.reduceBlurEffects = TRUE,
                           !.limitConcurrentAnimations = 1]
        ELSE CASE tier = "low" ->
                    [reset EXCEPT !.disableComplexAnimations = TRUE,
                                  !.reduceAnimationDuration = TRUE,
                                  !.disableParallax = TRUE,
                                  !.reduceBlurEffects = TRUE,
                                  !.limitConcurrentAnimations = 1]
               [] tier = "medium" ->
                    [reset EXCEPT !.reduceAnimationDuration = TRUE,
                                  !.disableParallax = TRUE,
                                  !.limitConcurrentAnimations = 2]
               [] OTHER -> reset

\* mutation: the reset of the previous policy is skipped, so the new policy
\* is patched over the stale one
applyDegradationStrategy_noReset(config, tier, rm) ==
    IF rm
    THEN [config EXCEPT !.disableComplexAnimations = TRUE,
                        !.disableParallax = TRUE,
                        !.reduceBlurEffects = TRUE,
                        !.limitConcurrentAnimations = 1]
    ELSE CASE tier = "low" ->
                [config EXCEPT !.disableComplexAnimations = TRUE,
                               !.reduceAnimationDuration = TRUE,
                               !.disableParallax = TRUE,
                               !.reduceBlurEffects = TRUE,
                               !.limitConcurrentAnimations = 1]
           [] tier = "medium" ->
                [config EXCEPT !.reduceAnimationDuration = TRUE,
                               !.disableParallax = TRUE,
                               !.limitConcurrentAnimations = 2]
           [] OTHER ->
                [config EXCEPT !.limitConcurrentAnimations = 5]

\* the policy written by applyDegradationStrategy over the policy in force
applyDegradationStrategy(config, tier, rm) ==
    LET reset == [config EXCEPT !.disableComplexAnimations = FALSE,
                                !.reduceAnimationDuration = FALSE,
                                !.disableParallax = FALSE,
                                !.reduceBlurEffects = FALSE,
                                !.limitConcurrentAnimations = DefaultLimit]
    IN  IF rm
        THEN [reset EXCEPT !.disableComplexAnimations = TRUE,
                           !.disableParallax = TRUE,
                           !.reduceBlurEffects = TRUE,
                           !.limitConcurrentAnimations = 1]
        ELSE CASE tier = "low" ->
                    [reset EXCEPT !.disableComplexAnimations = TRUE,
                                  !.reduceAnimationDuration = TRUE,
                                  !.disableParallax = TRUE,
                                  !.reduceBlurEffects = TRUE,
                                  !.limitConcurrentAnimations = 1]
               [] tier = "medium" ->
                    [reset EXCEPT !.reduceAnimationDuration = TRUE,
                                  !.disableParallax = TRUE,
                                  !.limitConcurrentAnimations = 2]
               [] OTHER ->
                    [reset EXCEPT !.limitConcurrentAnimations = 5]

\* mutation: the sample-count guard is strict (more than 5 samples)
checkPerformanceDegradation_strictCount(tier, history) ==
    LET avgFPS == getAverageFPS(history)
    IN  IF avgFPS < lowFPS /\ Len(history) > MinSamples
        THEN "low"
        ELSE IF avgFPS < mediumFPS /\ Len(history) > MinSamples
        THEN (IF tier = "high" THEN "medium" ELSE tier)
        ELSE IF avgFPS >= highFPS /\ Len(history) > MinSamples
        THEN "high"
        ELSE tier

\* mutation: the recovery branch tests the medium threshold (no dead zone)
checkPerformanceDegradation_noDeadZone(tier, history) ==
    LET avgFPS == getAverageFPS(history)
    IN  IF avgFPS < lowFPS /\ Len(history) >= MinSamples
        THEN "low"
        ELSE IF avgFPS < mediumFPS /\ Len(history) >= MinSamples
        THEN (IF tier = "high" THEN "medium" ELSE tier)
        ELSE IF avgFPS >= mediumFPS /\ Len(history) >= MinSamples
        THEN "high"
        ELSE tier

\* mutation: the branches do not wait for 5 samples
checkPerformanceDegradation_noCountGuard(tier, history) ==
    LET avgFPS == getAverageFPS(history)
    IN  IF avgFPS < lowFPS
        THEN "low"
        ELSE IF avgFPS < mediumFPS
        THEN (IF tier = "high" THEN "medium" ELSE tier)
        ELSE IF avgFPS >= highFPS
        THEN "high"
        ELSE tier

\* mutation: the medium branch does not look at the current tier
checkPerformanceDegradation_mediumFromAny(tier, history) ==
    LET avgFPS == getAverageFPS(history)
    IN  IF avgFPS < lowFPS /\ Len(history) >= MinSamples
        THEN "low"
        ELSE IF avgFPS < mediumFPS /\ Len(history) >= MinSamples
        THEN "medium"
        ELSE IF avgFPS >= highFPS /\ Len(history) >= MinSamples
        THEN "high"
        ELSE tier

\* mutation: the medium branch also lifts a low tier
checkPerformanceDegradation_mediumFromLow(tier, history) ==
    LET avgFPS == getAverageFPS(history)
    IN  IF avgFPS < lowFPS /\ Len(history) >= MinSamples
        THEN "low"
        ELSE IF avgFPS < mediumFPS /\ Len(history) >= MinSamples
        THEN (IF tier \in {"high", "low"} THEN "medium" ELSE tier)
        ELSE IF avgFPS >= highFPS /\ Len(history) >= MinSamples
        THEN "high"
        ELSE tier

\* mutation: the recovery branch is missing
checkPerformanceDegradation_noRecovery(tier, history) ==
    LET avgFPS == getAverageFPS(history)
    IN  IF avgFPS < lowFPS /\ Len(history) >= MinSamples
        THEN "low"
        ELSE IF avgFPS < mediumFPS /\ Len(history) >= MinSamples
        THEN (IF tier = "high" THEN "medium" ELSE tier)
        ELSE tier

\* the tier left by checkPerformanceDegradation
checkPerformanceDegradation(tier, history) ==
    LET avgFPS == getAverageFPS(history)
    IN  IF avgFPS < lowFPS /\ Len(history) >= MinSamples
        THEN "low"
        ELSE IF avgFPS < mediumFPS /\ Len(history) >= MinSamples
        THEN (IF tier = "high" THEN "medium" ELSE tier)
        ELSE IF avgFPS >= highFPS /\ Len(history) >= MinSamples
        THEN "high"
        ELSE tier

\* mutation: the limit test is off by one (> instead of >=)
registerAnimation_offByOne(active, limit, id) ==
    IF Cardinality(active) > limit
    THEN [ret |-> FALSE, active |-> active]
    ELSE [ret |-> TRUE, active |-> active \cup {id}]

\* mutation: the id is added before the limit is tested
registerAnimation_addsFirst(active, limit, id) ==
    IF Cardinality(active) >= limit
    THEN [ret |-> FALSE, active |-> active \cup {id}]
    ELSE [ret |-> TRUE, active |-> active \cup {id}]

\* mutation: the limit is tested against the default, not the policy in force
registerAnimation_defaultLimit(active, limit, id) ==
    IF Cardinality(active) >= DefaultLimit
    THEN [ret |-> FALSE, active |-> active]
    ELSE [ret |-> TRUE, active |-> active \cup {id}]

\* mutation: an id that is already active is refused
registerAnimation_rejectsDuplicate(active, limit, id) ==
    IF Cardinality(active) >= limit \/ id \in active
    THEN [ret |-> FALSE, active |-> active]
    ELSE [ret |-> TRUE, active |-> active \cup {id}]

\* registerAnimation: the value returned and the active set left behind
registerAnimation(active, limit, id) ==
    IF Cardinality(active) >= limit
    THEN [ret |-> FALSE, active |-> active]
    ELSE [ret |-> TRUE, active |-> active \cup {id}]

\* mutation: the whole set is cleared instead of one id deleted
unregisterAnimation_clears(active, id) == {}

\* mutation: the id is not deleted
unregisterAnimation_keeps(active, id) == active

unregisterAnimation(active, id) == active \ {id}

\* mutation: pausing leaves the tickets in place
pauseMonitoring_keepsTickets(active) == active

\* the active set after pauseMonitoring: activeAnimations.clear()
pauseMonitoring(active) == {}

\* mutation: the low tier is not tested
shouldAnimate_ignoresTier(tier, rm) == ~rm

shouldAnimate(tier, rm) == ~rm /\ tier # "low"

\* mutation: a full history drops the sample just pushed
pushSample_evictsNewest(history, sample) ==
    IF Len(history) >= HistoryCap THEN history ELSE Append(history, sample)

\* fpsHistory after push and the eviction of the oldest sample
pushSample(history, sample) ==
    LET h == Append(history, sample)
    IN  IF Len(h) > HistoryCap THEN Tail(h) ELSE h

\* mutation: every evaluation recomputes the policy
recomputes_always(tier, newTier) == TRUE

\* the tier guard in front of every applyDegradationStrategy call of
\* checkPerformanceDegradation: the policy is recomputed iff the tier moves
recomputes(tier, newTier) == newTier # tier

\* the classes applyCSSClasses removes and sets again
PerfClasses ==
    {"perf-low", "perf-medium", "perf-high", "reduced-motion",
     "no-complex-animations", "no-parallax", "reduced-blur"}

\* mutation: the full values are not written back (only reductions are)
applyCSSVariables_onlyReduces(style, config) ==
    [style EXCEPT
        !.durationFast = IF config.reduceAnimationDuration THEN 100 ELSE @,
        !.durationBase = IF config.reduceAnimationDuration THEN 150 ELSE @,
        !.durationSlow = IF config.reduceAnimationDuration THEN 250 ELSE @,
        !.glassBlur = IF config.reduceBlurEffects THEN 10 ELSE @]

\* the inline style variables, in ms and px; 0 is a variable never set
applyCSSVariables(style, config) ==
    [style EXCEPT
        !.durationFast = IF config.reduceAnimationDuration THEN 100 ELSE 150,
        !.durationBase = IF config.reduceAnimationDuration THEN 150 ELSE 300,
        !.durationSlow = IF config.reduceAnimationDuration THEN 250 ELSE 500,
        !.glassBlur = IF config.reduceBlurEffects THEN 10 ELSE 20]

\* mutation: the classes of the previous policy are not removed
applyCSSClasses_merges(style, config, tier, rm) ==
    LET removed == style.classes
        added ==
            {CASE tier = "low" -> "perf-low"
               [] tier = "medium" -> "perf-medium"
               [] OTHER -> "perf-high"}
            \cup (IF rm THEN {"reduced-motion"} ELSE {})
            \cup (IF config.disableComplexAnimations
                  THEN {"no-complex-animations"} ELSE {})
            \cup (IF config.disableParallax THEN {"no-parallax"} ELSE {})
            \cup (IF config.reduceBlurEffects THEN {"reduced-blur"} ELSE {})
    IN  [style EXCEPT !.classes = removed \cup added]

applyCSSClasses(style, config, tier, rm) ==
    LET removed == style.classes \ PerfClasses
        added ==
            {CASE tier = "low" -> "perf-low"
               [] tier = "medium" -> "perf-medium"
               [] OTHER -> "perf-high"}
            \cup (IF rm THEN {"reduced-motion"} ELSE {})
            \cup (IF config.disableComplexAnimations
                  THEN {"no-complex-animations"} ELSE {})
            \cup (IF config.disableParallax THEN {"no-parallax"} ELSE {})
            \cup (IF config.reduceBlurEffects THEN {"reduced-blur"} ELSE {})
    IN  [style EXCEPT !.classes = removed \cup added]

\* the two channels as applyDegradationStrategy leaves them
mirror(style, config, tier, rm) ==
    applyCSSClasses(applyCSSVariables(style, config), config, tier, rm)

\* mutation: the callback that closes a window does not request a frame
rearm_notAfterWindow(chains, closes, threw) ==
    chains - 1 + (IF threw \/ closes THEN 0 ELSE 1)

\* the measureFPS requests pending after one measureFPS callback ran: the
\* callback was taken out of the queue and requests the next frame in its
\* last statement, which an exception thrown earlier skips; closes: the
\* callback closed a window
rearm(chains, closes, threw) == chains - 1 + (IF threw THEN 0 ELSE 1)

\* mutation: the threshold is inclusive (>= 50 ms)
RECURSIVE observe_inclusive(_, _, _, _)
observe_inclusive(tasks, clock, entries, throws) ==
    IF entries = <<>>
    THEN [tasks |-> tasks, threw |-> FALSE]
    ELSE IF Head(entries) >= longTaskThreshold
         THEN LET pushed == Append(tasks, [duration |-> Head(entries),
                                           startTime |-> clock])
                  kept == IF Len(pushed) > LongTaskCap THEN Tail(pushed)
                          ELSE pushed
              IN  IF throws
                  THEN [tasks |-> kept, threw |-> TRUE]
                  ELSE observe_inclusive(kept, clock + 1, Tail(entries), throws)
         ELSE observe_inclusive(tasks, clock + 1, Tail(entries), throws)

\* the long-task history after the observer callback went through entries
\* (durations in ms; the entry at position i started at clock + i - 1);
\* throws: the log call after a record throws and ends the callback
RECURSIVE observe(_, _, _, _)
observe(tasks, clock, entries, throws) ==
    IF entries = <<>>
    THEN [tasks |-> tasks, threw |-> FALSE]
    ELSE IF Head(entries) > longTaskThreshold
         THEN LET pushed == Append(tasks, [duration |-> Head(entries),
                                           startTime |-> clock])
                  kept == IF Len(pushed) > LongTaskCap THEN Tail(pushed)
                          ELSE pushed
              IN  IF throws
                  THEN [tasks |-> kept, threw |-> TRUE]
                  ELSE observe(kept, clock + 1, Tail(entries), throws)
         ELSE observe(tasks, clock + 1, Tail(entries), throws)

(***************************************************************************)
(* Initial state: the object literals, before init() is called             *)
(***************************************************************************)
NoAnim == [phase |-> "none", id |-> NoId, elapsed |-> -1]

\* progress is the value handed to the animation callback, in ms of the
\* 300 ms duration (300 is progress 1), or -1 when no callback was invoked;
\* arg is the benchmark duration measured by the callback or the average
\* reported by it, or -1; threw: the callback ended by an exception;
\* entries: the list handed to the long-task observer
Call(op, id, anim, ret, progress) ==
    [op |-> op, id |-> id, anim |-> anim, ret |-> ret, progress |-> progress,
     arg |-> -1, threw |-> FALSE, entries |-> <<>>]

\* a callback whose log call ran into a throwing console when failed holds
Threw(call, failed) == [call EXCEPT !.threw = failed]

\* a callback that ran detectDevicePerformance and measured duration
Detected(op, duration) ==
    [Call(op, NoId, "none", TRUE, -1) EXCEPT !.arg = duration]

InitialDegradation ==
    [disableComplexAnimations |-> FALSE, reduceAnimationDuration |-> FALSE,
     disableParallax |-> FALSE, reduceBlurEffects |-> FALSE,
     limitConcurrentAnimations |-> DefaultLimit]

\* no style variable set and no class on the root element
NoCSS ==
    [durationFast |-> 0, durationBase |-> 0, durationSlow |-> 0,
     glassBlur |-> 0, classes |-> {}]

LoadHost(slots, hosts) ==
    /\ initialized = FALSE
    /\ env \in hosts
    /\ deviceTier = "high"
    /\ isReducedMotion = FALSE
    /\ degradation = InitialDegradation
    /\ activeAnimations = {}
    /\ fps = DefaultFPS
    /\ fpsHistory = <<>>
    /\ anims = [a \in slots |-> NoAnim]
    /\ lastCall = Call("load", NoId, "none", FALSE, -1)
    /\ isMonitoring = FALSE
    /\ fpsChains = 0
    /\ longTasks = <<>>
    /\ taskClock = 0
    /\ css = NoCSS
    /\ consoleThrows = FALSE
    /\ resizeTimeout = -1
    /\ samplerTimers = 0
    /\ loggingTimers = 0

Load(slots) == LoadHost(slots, Envs)

(***************************************************************************)
(* Callbacks                                                               *)
(***************************************************************************)
\* init(): detectReducedMotion, detectDevicePerformance,
\* applyDegradationStrategy, startMonitoring and the listeners; init runs
\* while the console works
InitMonitor ==
    /\ ~initialized
    /\ \E duration \in Durations :
         LET rm == detectReducedMotion(env)
             tier == detectDevicePerformance(duration, env)
             policy == applyDegradationStrategy(degradation, tier, rm)
         IN  /\ isReducedMotion' = rm
             /\ deviceTier' = tier
             /\ degradation' = policy
             /\ css' = mirror(css, policy, tier, rm)
             /\ lastCall' = Detected("init", duration)
    /\ initialized' = TRUE
    /\ isMonitoring' = TRUE
    /\ fpsChains' = IF isMonitoring THEN fpsChains ELSE fpsChains + 1
    /\ samplerTimers' = IF isMonitoring THEN samplerTimers ELSE samplerTimers + 1
    /\ loggingTimers' = loggingTimers + 1
    /\ UNCHANGED <<env, activeAnimations, fps, fpsHistory, anims, observer,
                   consoleThrows, resizeTimeout>>

\* the 'change' listener of the prefers-reduced-motion media query
PreferenceChange ==
    /\ initialized
    /\ env' = [env EXCEPT !.matches = ~env.matches]
    /\ isReducedMotion' = env'.matches
    /\ degradation' = applyDegradationStrategy(degradation, deviceTier, env'.matches)
    /\ css' = mirror(css, degradation', deviceTier, env'.matches)
    /\ lastCall' = Threw(Call("preference", NoId, "none", env'.matches, -1),
                         consoleThrows)
    /\ UNCHANGED <<initialized, deviceTier, activeAnimations, fps, fpsHistory,
                   anims, sampler, observer, consoleThrows,
                   timers>>

\* the body of the callback of the resize timer: detectDevicePerformance,
\* applyDegradationStrategy; detectDevicePerformance ends with a log call,
\* and when that call throws the callback ends before applyDegradationStrategy
Redetect ==
    /\ initialized
    /\ \E duration \in Durations :
         LET tier == detectDevicePerformance(duration, env)
             policy == IF consoleThrows THEN degradation
                       ELSE applyDegradationStrategy(degradation, tier,
                                                     isReducedMotion)
         IN  /\ deviceTier' = tier
             /\ degradation' = policy
             /\ css' = IF consoleThrows THEN css
                       ELSE mirror(css, policy, tier, isReducedMotion)
             /\ lastCall' = Threw(Detected("resize", duration), consoleThrows)
    /\ UNCHANGED <<initialized, env, isReducedMotion, activeAnimations, fps,
                   fpsHistory, anims, sampler, observer, consoleThrows,
                   samplerTimers, loggingTimers>>

\* the debounced resize timer in the specifications that do not follow its
\* delay: a burst of resize events ended 500 ms ago and the callback runs
ResizeRedetect ==
    /\ Redetect
    /\ UNCHANGED resizeTimeout

\* mutation: an event leaves a pending timer alone (no clearTimeout, and no
\* new timer while one is pending)
debounce_keepsPending(pending) == IF pending >= 0 THEN pending ELSE ResizeDelay

\* the delay of the timer pending after a resize event: the pending one, if
\* any, is cleared and a new one set
debounce(pending) == ResizeDelay

\* the 'resize' listener: clearTimeout, setTimeout
ResizeEvent ==
    /\ initialized
    /\ resizeTimeout' = debounce(resizeTimeout)
    /\ lastCall' = Call("resizeEvent", NoId, "none", resizeTimeout >= 0, -1)
    /\ UNCHANGED <<initialized, env, deviceTier, isReducedMotion, degradation,
                   activeAnimations, fps, fpsHistory, anims, sampler, observer,
                   css, consoleThrows, samplerTimers, loggingTimers>>

\* the event loop idles for dt ms while the resize timer is pending; a timer
\* whose delay has passed is due (0) until its callback runs
TimePasses ==
    /\ resizeTimeout > 0
    /\ \E dt \in TimeSteps :
         /\ resizeTimeout' = IF dt > resizeTimeout THEN 0 ELSE resizeTimeout - dt
         /\ lastCall' = [Call("idle", NoId, "none", FALSE, -1) EXCEPT !.arg = dt]
    /\ UNCHANGED <<initialized, env, deviceTier, isReducedMotion, degradation,
                   activeAnimations, fps, fpsHistory, anims, sampler, observer,
                   css, consoleThrows, samplerTimers, loggingTimers>>

\* the callback of the resize timer, run once the timer is due
ResizeTimeout ==
    /\ resizeTimeout = 0
    /\ Redetect
    /\ resizeTimeout' = -1

\* measureFPS on a frame inside a window: the frame is counted and the next
\* one requested
MeasureFrame ==
    /\ fpsChains > 0
    /\ fpsChains' = rearm(fpsChains, FALSE, FALSE)
    /\ lastCall' = Call("measureFrame", NoId, "none", FALSE, -1)
    /\ UNCHANGED <<initialized, env, deviceTier, isReducedMotion, degradation,
                   activeAnimations, fps, fpsHistory, anims, isMonitoring,
                   observer, css, consoleThrows,
                   timers>>

\* measureFPS on the frame that closes a window: frameCount frames were
\* counted and elapsed >= fpsWindow ms have passed since the last boundary;
\* a recompute logs, and a log call that throws ends the callback before it
\* requests the next frame
MeasureFPS(frameCounts, maxWindows) ==
    /\ initialized
    /\ fpsChains > 0
    /\ \E frameCount \in frameCounts, elapsed \in {fpsWindow} :
         LET sample == Round(frameCount * 1000, elapsed)
             history == pushSample(fpsHistory, sample)
             tier == checkPerformanceDegradation(deviceTier, history)
             applied == recomputes(deviceTier, tier)
             policy == IF applied
                       THEN applyDegradationStrategy(degradation, tier,
                                                     isReducedMotion)
                       ELSE degradation
             threw == applied /\ consoleThrows
         IN  /\ Len(fpsHistory) < maxWindows
             /\ fps' = sample
             /\ fpsHistory' = history
             /\ deviceTier' = tier
             /\ degradation' = policy
             /\ css' = IF applied THEN mirror(css, policy, tier, isReducedMotion)
                       ELSE css
             /\ fpsChains' = rearm(fpsChains, TRUE, threw)
             /\ lastCall' = Threw(Call("measureFPS", NoId, "none", applied, -1),
                                  threw)
    /\ UNCHANGED <<initialized, env, isReducedMotion, activeAnimations, anims,
                   isMonitoring, observer, consoleThrows,
                   timers>>

\* visibilitychange with document.hidden: pauseMonitoring
PageHidden ==
    /\ initialized
    /\ activeAnimations' = pauseMonitoring(activeAnimations)
    /\ lastCall' = Threw(Call("hidden", NoId, "none", TRUE, -1), consoleThrows)
    /\ UNCHANGED <<initialized, env, deviceTier, isReducedMotion, degradation,
                   fps, fpsHistory, anims, sampler, observer, css,
                   consoleThrows,
                   timers>>

\* visibilitychange with the page visible again: resumeMonitoring
PageVisible ==
    /\ initialized
    /\ lastCall' = Threw(Call("visible", NoId, "none", TRUE, -1), consoleThrows)
    /\ UNCHANGED <<initialized, env, deviceTier, isReducedMotion, degradation,
                   activeAnimations, fps, fpsHistory, anims, sampler, observer,
                   css, consoleThrows,
                   timers>>

\* a collaborator calls PerformanceMonitor.registerAnimation(id); a refusal
\* is logged before false is returned
RegisterAnimation ==
    /\ initialized
    /\ \E id \in Ids :
         LET r == registerAnimation(activeAnimations,
                                    degradation.limitConcurrentAnimations, id)
         IN  /\ activeAnimations' = r.active
             /\ lastCall' = Threw(Call("register", id, "none", r.ret, -1),
                                  ~r.ret /\ consoleThrows)
    /\ UNCHANGED <<initialized, env, deviceTier, isReducedMotion, degradation,
                   fps, fpsHistory, anims, sampler, observer, css,
                   consoleThrows,
                   timers>>

\* a collaborator calls PerformanceMonitor.unregisterAnimation(id)
UnregisterAnimation ==
    /\ initialized
    /\ \E id \in Ids :
         /\ activeAnimations' = unregisterAnimation(activeAnimations, id)
         /\ lastCall' = Call("unregister", id, "none", TRUE, -1)
    /\ UNCHANGED <<initialized, env, deviceTier, isReducedMotion, degradation,
                   fps, fpsHistory, anims, sampler, observer, css,
                   consoleThrows,
                   timers>>

\* unregisterAnimation as animate calls it: only when an id was given
release(active, id) == IF id # NoId THEN unregisterAnimation(active, id) ELSE active

\* AnimationOptimizer.animate(callback, id); when the refusal of the ticket
\* cannot be logged, registerAnimation throws and animate neither invokes
\* the callback nor returns a handle
Animate(slots) ==
    /\ initialized
    /\ \E a \in slots, id \in Ids \cup {NoId} :
         /\ anims[a].phase \notin {"running", "zombie"}
         /\ IF ~shouldAnimate(deviceTier, isReducedMotion)
            THEN /\ anims' = [anims EXCEPT ![a] = [NoAnim EXCEPT !.phase = "noop"]]
                 /\ activeAnimations' = activeAnimations
                 /\ lastCall' = Call("animate", id, a, FALSE, AnimDuration)
            ELSE LET r == IF id # NoId
                          THEN registerAnimation(activeAnimations,
                                   degradation.limitConcurrentAnimations, id)
                          ELSE [ret |-> TRUE, active |-> activeAnimations]
                 IN  IF ~r.ret /\ consoleThrows
                     THEN /\ UNCHANGED anims
                          /\ activeAnimations' = r.active
                          /\ lastCall' = Threw(Call("animate", id, a, FALSE, -1),
                                               TRUE)
                     ELSE IF ~r.ret
                     THEN /\ anims' = [anims EXCEPT ![a] = [NoAnim EXCEPT !.phase = "noop"]]
                          /\ activeAnimations' = r.active
                          /\ lastCall' = Call("animate", id, a, FALSE, AnimDuration)
                     ELSE /\ anims' = [anims EXCEPT ![a] =
                                         [phase |-> "running", id |-> id, elapsed |-> -1]]
                          /\ activeAnimations' = r.active
                          /\ lastCall' = Call("animate", id, a, TRUE, -1)
    /\ UNCHANGED <<initialized, env, deviceTier, isReducedMotion, degradation,
                   fps, fpsHistory, sampler, observer, css, consoleThrows,
                   timers>>

\* mutation: the ticket is released on every frame, not only on the last one
animateFrame_releasesEveryFrame(an, active, dt, cancelInside) ==
    LET e == IF an.elapsed = -1 THEN 0 ELSE Min(an.elapsed + dt, AnimDuration)
    IN  IF e < AnimDuration
        THEN [an |-> IF cancelInside
                     THEN [phase |-> "zombie", id |-> an.id, elapsed |-> -1]
                     ELSE [an EXCEPT !.elapsed = e],
              active |-> release(active, an.id), progress |-> e]
        ELSE [an |-> [phase |-> IF cancelInside THEN "cancelled" ELSE "done",
                      id |-> an.id, elapsed |-> -1],
              active |-> release(active, an.id), progress |-> e]

\* mutation: the last frame does not unregister the ticket
animateFrame_keepsTicketOnCompletion(an, active, dt, cancelInside) ==
    LET e == IF an.elapsed = -1 THEN 0 ELSE Min(an.elapsed + dt, AnimDuration)
        afterCallback == IF cancelInside THEN release(active, an.id) ELSE active
    IN  IF e < AnimDuration
        THEN [an |-> IF cancelInside
                     THEN [phase |-> "zombie", id |-> an.id, elapsed |-> -1]
                     ELSE [an EXCEPT !.elapsed = e],
              active |-> afterCallback, progress |-> e]
        ELSE [an |-> [phase |-> IF cancelInside THEN "cancelled" ELSE "done",
                      id |-> an.id, elapsed |-> -1],
              active |-> afterCallback, progress |-> e]

\* mutation: the progress is not clamped to 1
animateFrame_unclamped(an, active, dt, cancelInside) ==
    LET e == IF an.elapsed = -1 THEN 0 ELSE an.elapsed + dt
        afterCallback == IF cancelInside THEN release(active, an.id) ELSE active
    IN  IF e < AnimDuration
        THEN [an |-> IF cancelInside
                     THEN [phase |-> "zombie", id |-> an.id, elapsed |-> -1]
                     ELSE [an EXCEPT !.elapsed = e],
              active |-> afterCallback, progress |-> e]
        ELSE [an |-> [phase |-> IF cancelInside THEN "cancelled" ELSE "done",
                      id |-> an.id, elapsed |-> -1],
              active |-> release(afterCallback, an.id), progress |-> e]

\* the closure's state and the active set after one frame callback of a live
\* animation; cancelInside: the callback invokes its own cancel handle
animateFrame(an, active, dt, cancelInside) ==
    LET e == IF an.elapsed = -1 THEN 0 ELSE Min(an.elapsed + dt, AnimDuration)
        afterCallback == IF cancelInside THEN release(active, an.id) ELSE active
    IN  IF e < AnimDuration
        THEN [an |-> IF cancelInside
                     THEN [phase |-> "zombie", id |-> an.id, elapsed |-> -1]
                     ELSE [an EXCEPT !.elapsed = e],
              active |-> afterCallback, progress |-> e]
        ELSE [an |-> [phase |-> IF cancelInside THEN "cancelled" ELSE "done",
                      id |-> an.id, elapsed |-> -1],
              active |-> release(afterCallback, an.id), progress |-> e]

\* one requestAnimationFrame callback of an animation
AnimFrame(slots) ==
    /\ initialized
    /\ \E a \in slots :
         \/ /\ anims[a].phase = "running"
            /\ \E dt \in FrameDeltas, cancelInside \in BOOLEAN :
                 LET r == animateFrame(anims[a], activeAnimations, dt, cancelInside)
                 IN  /\ anims' = [anims EXCEPT ![a] = r.an]
                     /\ activeAnimations' = r.active
                     /\ lastCall' = Call("frame", anims[a].id, a, cancelInside, r.progress)
         \/ /\ anims[a].phase = "zombie"
            /\ anims' = [anims EXCEPT ![a] = [@ EXCEPT !.phase = "cancelled"]]
            /\ activeAnimations' = release(activeAnimations, anims[a].id)
            /\ lastCall' = Call("frame", anims[a].id, a, TRUE, -1)
    /\ UNCHANGED <<initialized, env, deviceTier, isReducedMotion, degradation,
                   fps, fpsHistory, sampler, observer, css, consoleThrows,
                   timers>>

\* the cancel handle returned by animate, invoked between two callbacks
Cancel(slots) ==
    /\ initialized
    /\ \E a \in slots :
         /\ anims[a].phase # "none"
         /\ IF anims[a].phase = "noop"
            THEN UNCHANGED <<anims, activeAnimations>>
            ELSE /\ anims' = [anims EXCEPT ![a] =
                                [phase |-> "cancelled", id |-> @.id, elapsed |-> -1]]
                 /\ activeAnimations' = release(activeAnimations, anims[a].id)
         /\ lastCall' = Call("cancel", anims[a].id, a, TRUE, -1)
    /\ UNCHANGED <<initialized, env, deviceTier, isReducedMotion, degradation,
                   fps, fpsHistory, sampler, observer, css, consoleThrows,
                   timers>>

\* the long-task observer callback, handed a list of timeline entries
LongTaskObserved(batches, maxEntries) ==
    /\ initialized
    /\ \E entries \in batches :
         LET r == observe(longTasks, taskClock, entries, consoleThrows)
         IN  /\ taskClock + Len(entries) <= maxEntries
             /\ longTasks' = r.tasks
             /\ taskClock' = taskClock + Len(entries)
             /\ lastCall' = [Threw(Call("longtask", NoId, "none", TRUE, -1),
                                   r.threw) EXCEPT !.entries = entries]
    /\ UNCHANGED <<initialized, env, deviceTier, isReducedMotion, degradation,
                   activeAnimations, fps, fpsHistory, anims, sampler, css,
                   consoleThrows,
                   timers>>

\* a collaborator calls getPerformanceReport(); arg holds its averageFPS
GetPerformanceReport ==
    /\ initialized
    /\ lastCall' = [Call("report", NoId, "none", TRUE, -1)
                       EXCEPT !.arg = getAverageFPS(fpsHistory)]
    /\ UNCHANGED <<initialized, env, deviceTier, isReducedMotion, degradation,
                   activeAnimations, fps, fpsHistory, anims, sampler, observer,
                   css, consoleThrows,
                   timers>>

\* the host's console starts or stops throwing (a console replaced or
\* removed by another script); init has run on a working console
ConsoleChange ==
    /\ initialized
    /\ consoleThrows' = ~consoleThrows
    /\ lastCall' = Call("console", NoId, "none", ~consoleThrows, -1)
    /\ UNCHANGED <<initialized, env, deviceTier, isReducedMotion, degradation,
                   activeAnimations, fps, fpsHistory, anims, sampler, observer,
                   css,
                   timers>>

\* the timers left by clearInterval on the handle the monitor holds
clearHeld(n) == IF n > 0 THEN n - 1 ELSE n

\* a collaborator calls stopMonitoring(): the two intervals are cleared and
\* the flag reset; the measureFPS chain and the observer are left alone
StopMonitoring ==
    /\ initialized
    /\ samplerTimers' = clearHeld(samplerTimers)
    /\ loggingTimers' = clearHeld(loggingTimers)
    /\ isMonitoring' = FALSE
    /\ lastCall' = Threw(Call("stop", NoId, "none", isMonitoring, -1),
                         consoleThrows)
    /\ UNCHANGED <<initialized, env, deviceTier, isReducedMotion, degradation,
                   activeAnimations, fps, fpsHistory, anims, fpsChains,
                   observer, css, consoleThrows, resizeTimeout>>

\* a collaborator calls startMonitoring(): nothing while the flag is set;
\* otherwise a measureFPS chain is requested and the sampling interval set
StartMonitoring ==
    /\ initialized
    /\ IF isMonitoring
       THEN /\ UNCHANGED <<isMonitoring, fpsChains, samplerTimers>>
            /\ lastCall' = Call("start", NoId, "none", FALSE, -1)
       ELSE /\ fpsChains < MaxChains
            /\ isMonitoring' = TRUE
            /\ fpsChains' = fpsChains + 1
            /\ samplerTimers' = samplerTimers + 1
            /\ lastCall' = Call("start", NoId, "none", TRUE, -1)
    /\ UNCHANGED <<initialized, env, deviceTier, isReducedMotion, degradation,
                   activeAnimations, fps, fpsHistory, anims, observer, css,
                   consoleThrows, resizeTimeout, loggingTimers>>

\* the callback of the sampling interval: samplePerformance reads the heap
\* size and the navigation timing
SamplePerformance ==
    /\ samplerTimers > 0
    /\ lastCall' = Call("samplePerformance", NoId, "none", TRUE, -1)
    /\ UNCHANGED <<initialized, env, deviceTier, isReducedMotion, degradation,
                   activeAnimations, fps, fpsHistory, anims, sampler, observer,
                   css, consoleThrows, timers>>

\* the callback of the logging interval: the report is built and logged
PerformanceLogging ==
    /\ loggingTimers > 0
    /\ lastCall' = [Threw(Call("log", NoId, "none", TRUE, -1), consoleThrows)
                       EXCEPT !.arg = getAverageFPS(fpsHistory)]
    /\ UNCHANGED <<initialized, env, deviceTier, isReducedMotion, degradation,
                   activeAnimations, fps, fpsHistory, anims, sampler, observer,
                   css, consoleThrows, timers>>

Init == Load(Anims)

\* the same on a host without the reduced-motion preference
InitHistory == LoadHost(Anims, {h \in Envs : ~h.matches})

Sample == MeasureFPS(FrameCounts, MaxWindows)

Next ==
    \/ InitMonitor
    \/ PreferenceChange
    \/ ResizeRedetect
    \/ Sample
    \/ PageHidden
    \/ PageVisible
    \/ RegisterAnimation
    \/ UnregisterAnimation
    \/ Animate(Anims)
    \/ AnimFrame(Anims)
    \/ Cancel(Anims)

Spec == Init /\ [][Next]_vars

\* two animations in flight at once, tier driven by resize and preference
InitAnim == Load(AnimPair)

NextAnim ==
    \/ InitMonitor
    \/ PreferenceChange
    \/ ResizeRedetect
    \/ PageHidden
    \/ RegisterAnimation
    \/ UnregisterAnimation
    \/ Animate(AnimPair)
    \/ AnimFrame(AnimPair)
    \/ Cancel(AnimPair)

SpecAnim == InitAnim /\ [][NextAnim]_vars

\* the live sampler alone, with samples on both sides of every threshold,
\* on a host without the reduced-motion preference
SamplerSample == MeasureFPS(SamplerFrameCounts, MaxSamplerWindows)

NextSampler ==
    \/ InitMonitor
    \/ ResizeRedetect
    \/ SamplerSample

SpecSampler == InitHistory /\ [][NextSampler]_vars

\* the live sampler around the recovery threshold and the dead zone
RecoverySample == MeasureFPS(RecoveryFrameCounts, MaxSamplerWindows)

NextRecovery ==
    \/ InitMonitor
    \/ ResizeRedetect
    \/ RecoverySample

SpecRecovery == Init /\ [][NextRecovery]_vars

\* the capability profiler on hosts with low, adequate and absent hints
InitProfiler == LoadHost(Anims, ProfilerEnvs)

NextProfiler ==
    \/ InitMonitor
    \/ PreferenceChange
    \/ ResizeRedetect
    \/ Sample
    \/ PageHidden
    \/ RegisterAnimation
    \/ UnregisterAnimation

SpecProfiler == InitProfiler /\ [][NextProfiler]_vars

\* two animations whose requested frames are always delivered: the browser
\* runs every callback registered with requestAnimationFrame
NextLive ==
    \/ InitMonitor
    \/ PreferenceChange
    \/ ResizeRedetect
    \/ RegisterAnimation
    \/ UnregisterAnimation
    \/ Animate(AnimPair)
    \/ AnimFrame(AnimPair)
    \/ Cancel(AnimPair)

SpecLive ==
    /\ InitAnim
    /\ [][NextLive]_vars
    /\ \A a \in AnimPair : WF_vars(AnimFrame({a}))

\* windows of the history that stayed below the recovery threshold
slowWindows(history) ==
    Cardinality({i \in DOMAIN history : history[i] < highFPS})

\* the live sampler over a history of full length, on a host without the
\* reduced-motion preference, with few slow windows among the fast ones
HistorySample ==
    MeasureFPS(IF slowWindows(fpsHistory) < MaxSlowWindows
               THEN SlowFrameCounts \cup FastFrameCounts
               ELSE FastFrameCounts,
               HistoryCap + 1)

NextHistory ==
    \/ InitMonitor
    \/ HistorySample
    \/ GetPerformanceReport

SpecHistory == InitHistory /\ [][NextHistory]_vars

\* the sampling chain with every requested frame delivered and the clock
\* advancing, so that frames inside a window and frames closing one both
\* keep coming
ChainSample == MeasureFPS(FastFrameCounts, HistoryCap + 1)

NextChain ==
    \/ InitMonitor
    \/ ResizeRedetect
    \/ MeasureFrame
    \/ ChainSample

SpecChain ==
    /\ Init
    /\ [][NextChain]_vars
    /\ WF_vars(MeasureFrame)
    /\ WF_vars(ChainSample)

\* the callbacks that log, on a host whose console may start throwing
NextFault ==
    \/ InitMonitor
    \/ ConsoleChange
    \/ PreferenceChange
    \/ ResizeRedetect
    \/ MeasureFrame
    \/ Sample
    \/ PageHidden
    \/ PageVisible
    \/ RegisterAnimation

SpecFault == Init /\ [][NextFault]_vars

\* the long-task observer next to the admission calls
ObserverTasks == LongTaskObserved(Batches, MaxEntries)

NextObserver ==
    \/ InitMonitor
    \/ ObserverTasks
    \/ RegisterAnimation

SpecObserver == InitHistory /\ [][NextObserver]_vars

\* page visibility changes while an animation runs and both histories fill
PageTasks == LongTaskObserved(Batches, MaxPageEntries)

PageSample == MeasureFPS(FastFrameCounts, MaxPageWindows)

NextPage ==
    \/ InitMonitor
    \/ PageTasks
    \/ PageSample
    \/ PageHidden
    \/ PageVisible
    \/ Animate(Anims)
    \/ AnimFrame(Anims)

SpecPage == Init /\ [][NextPage]_vars

\* the resize listener and its timer next to the other policy applications,
\* the visibility changes and the admission calls
ResizeSample == MeasureFPS(FrameCounts, MaxResizeWindows)

NextResize ==
    \/ InitMonitor
    \/ PreferenceChange
    \/ ResizeEvent
    \/ TimePasses
    \/ ResizeTimeout
    \/ ResizeSample
    \/ PageHidden
    \/ PageVisible
    \/ RegisterAnimation

SpecResize == Init /\ [][NextResize]_vars

\* stopMonitoring and startMonitoring called while frames keep coming
StopSample == MeasureFPS(FrameCounts, MaxStopWindows)

NextStop ==
    \/ InitMonitor
    \/ StopMonitoring
    \/ StartMonitoring
    \/ MeasureFrame
    \/ StopSample
    \/ SamplePerformance
    \/ PerformanceLogging

SpecStop == Init /\ [][NextStop]_vars

\* places of the history where the frame rate changes
switches(history) ==
    Cardinality({i \in DOMAIN history : i > 1 /\ history[i] # history[i - 1]})

\* the live sampler over a history of full length whose windows come in
\* runs of one frame rate, 29 or 60 fps, with few changes between them
ResponseSample ==
    MeasureFPS({frameCount \in ResponseFrameCounts :
                   \/ fpsHistory = <<>>
                   \/ Round(frameCount * 1000, fpsWindow)
                          = fpsHistory[Len(fpsHistory)]
                   \/ switches(fpsHistory) < MaxSwitches},
               HistoryCap + 1)

NextResponse ==
    \/ InitMonitor
    \/ ResizeRedetect
    \/ ResponseSample

SpecResponse == InitHistory /\ [][NextResponse]_vars

(***************************************************************************)
(* Properties                                                              *)
(***************************************************************************)
limit == degradation.limitConcurrentAnimations
size == Cardinality(activeAnimations)

\* C1 (as stated): in every reachable state the number of active tickets is
\* at most limitConcurrentAnimations, also right after the limit shrinks.
C1_ActiveWithinLimit == size <= limit

\* C1 (amended): the active set is never negative in size and only ever grows
\* in a step that starts with |active| < limit and ends with |active| <= limit;
\* a shrinking limit may leave |active| above it, but then nothing is admitted.
C1_GrowthOnlyBelowLimit ==
    [][/\ size >= 0
       /\ Cardinality(activeAnimations') > size =>
            /\ size < limit
            /\ Cardinality(activeAnimations') <= degradation'.limitConcurrentAnimations]_vars

C1_Witness ==
    /\ lastCall.op = "register"
    /\ lastCall.ret
    /\ size = limit

\* C2: registerAnimation(id) returns true iff |active| < limit at the call;
\* when it returns true the set afterwards is the old set plus id, when it
\* returns false the set is exactly the old set.
C2_RegisterAdmitsIffBelowLimit ==
    [][lastCall'.op = "register" =>
         /\ lastCall'.ret = (size < limit)
         /\ lastCall'.ret =>
              /\ lastCall'.id \in activeAnimations'
              /\ activeAnimations' = activeAnimations \cup {lastCall'.id}
         /\ ~lastCall'.ret => activeAnimations' = activeAnimations]_vars

C2_Witness ==
    /\ lastCall.op = "register"
    /\ ~lastCall.ret
    /\ lastCall.id \notin activeAnimations
    /\ size = limit

\* C3: a step that lowers limitConcurrentAnimations removes no ticket, and
\* every admission request made while |active| >= limit is refused and
\* leaves the active set alone.
C3_ShrinkBlocksWithoutEvicting ==
    [][/\ degradation'.limitConcurrentAnimations < limit =>
            activeAnimations' = activeAnimations
       /\ (/\ lastCall'.op \in {"register", "animate"}
           /\ lastCall'.id # NoId
           /\ size >= limit) =>
            /\ ~lastCall'.ret
            /\ activeAnimations' = activeAnimations]_vars

C3_Witness ==
    /\ lastCall.op = "register"
    /\ ~lastCall.ret
    /\ size > limit

\* C4: unregisterAnimation(id) removes id and nothing else, changes nothing
\* at all when id is absent, leaves tier, reducedMotion and policy alone, and
\* a second call changes nothing more.
C4_UnregisterIdempotent ==
    [][lastCall'.op = "unregister" =>
         /\ activeAnimations' = activeAnimations \ {lastCall'.id}
         /\ lastCall'.id \notin activeAnimations =>
              activeAnimations' = activeAnimations
         /\ unregisterAnimation(activeAnimations', lastCall'.id) = activeAnimations'
         /\ UNCHANGED <<deviceTier, isReducedMotion, degradation, fpsHistory, anims>>]_vars

C4_Witness ==
    /\ lastCall.op = "unregister"
    /\ lastCall.id \notin activeAnimations
    /\ activeAnimations # {}

inFlight(a) == anims[a].phase = "running" /\ anims[a].id # NoId

\* C5 (as stated): while an animation started with a ticket is in flight,
\* its id is in the active set.
C5_TicketHeldWhileInFlight ==
    \A a \in DOMAIN anims : inFlight(a) => anims[a].id \in activeAnimations

\* C5 (amended): the ticket is in the active set when animate returns with an
\* admission, and while the animation stays in flight its id leaves the set
\* only by a page-hidden event, by an unregisterAnimation(id) call, or by the
\* completion or cancellation of another animation started with the same id;
\* the animation's own frames remove it only when they end the animation.
C5_TicketLeavesOnlyByKnownSteps ==
    [][\A a \in DOMAIN anims :
         /\ (lastCall'.op = "animate" /\ lastCall'.anim = a /\ lastCall'.ret
             /\ lastCall'.id # NoId) => lastCall'.id \in activeAnimations'
         /\ (/\ inFlight(a)
             /\ anims'[a].phase = "running"
             /\ anims[a].id \in activeAnimations
             /\ anims[a].id \notin activeAnimations') =>
              \/ lastCall'.op = "hidden"
              \/ lastCall'.op = "unregister" /\ lastCall'.id = anims[a].id
              \/ /\ lastCall'.op \in {"frame", "cancel"}
                 /\ lastCall'.anim # a
                 /\ lastCall'.id = anims[a].id]_vars

C5_Witness ==
    \E a \in DOMAIN anims :
        /\ inFlight(a)
        /\ anims[a].elapsed > 0
        /\ anims[a].id \in activeAnimations
        /\ lastCall.op = "frame"
        /\ lastCall.anim = a

AllOn(limitValue) ==
    [disableComplexAnimations |-> TRUE, reduceAnimationDuration |-> TRUE,
     disableParallax |-> TRUE, reduceBlurEffects |-> TRUE,
     limitConcurrentAnimations |-> limitValue]

\* C6: once the policy has been derived, reducedMotion = true means that all
\* four toggles are true and limitConcurrentAnimations = 1, whatever the tier.
C6_ReducedMotionPolicyStrictest ==
    (initialized /\ isReducedMotion) => degradation = AllOn(1)

\* C7: once the policy has been derived, reducedMotion = false means: low
\* gives all four toggles and limit 1; medium gives reduceAnimationDuration
\* and disableParallax only and limit 2; high gives no toggle and limit 5.
C7_PolicyPerTier ==
    (initialized /\ ~isReducedMotion) =>
        degradation =
            CASE deviceTier = "low" -> AllOn(1)
              [] deviceTier = "medium" ->
                    [disableComplexAnimations |-> FALSE,
                     reduceAnimationDuration |-> TRUE,
                     disableParallax |-> TRUE,
                     reduceBlurEffects |-> FALSE,
                     limitConcurrentAnimations |-> 2]
              [] deviceTier = "high" ->
                    [disableComplexAnimations |-> FALSE,
                     reduceAnimationDuration |-> FALSE,
                     disableParallax |-> FALSE,
                     reduceBlurEffects |-> FALSE,
                     limitConcurrentAnimations |-> 5]

C7_Witness ==
    /\ initialized
    /\ ~isReducedMotion
    /\ deviceTier = "medium"
    /\ lastCall.op = "measureFPS"
    /\ lastCall.ret

Policies ==
    [disableComplexAnimations : BOOLEAN, reduceAnimationDuration : BOOLEAN,
     disableParallax : BOOLEAN, reduceBlurEffects : BOOLEAN,
     limitConcurrentAnimations : {1, 2, 3, 5}]

\* C8: the policy in force is the derivation from the current tier and
\* reducedMotion started from any previous policy whatever, so it does not
\* depend on the policy before and deriving it again changes nothing.
C8_PolicyFullyRecomputed ==
    initialized =>
        /\ degradation \in Policies
        /\ \A stale \in Policies :
             applyDegradationStrategy(stale, deviceTier, isReducedMotion) = degradation

C8_Witness ==
    /\ lastCall.op = "preference"
    /\ ~isReducedMotion
    /\ deviceTier = "medium"
    /\ size = 2

sampled == lastCall.op = "measureFPS" /\ Len(fpsHistory) >= MinSamples
total == Sum(fpsHistory)
count == Len(fpsHistory)

\* C9 (as stated): after the evaluation of a history of at least 5 samples
\* whose mean is below 30, the tier is low.
C9_MeanBelow30GivesLow ==
    (sampled /\ total < 30 * count) => deviceTier = "low"

\* C9 (amended): after the evaluation of a history of at least 5 samples
\* whose mean, rounded to the nearest integer (halves up), is below 30, that
\* is whose mean is below 29.5, the tier is low whatever it was before.
C9_RoundedMeanBelow30GivesLow ==
    (sampled /\ 2 * total < 59 * count) => deviceTier = "low"

C9_Witness ==
    /\ sampled
    /\ 2 * total < 59 * count
    /\ lastCall.ret
    /\ deviceTier = "low"

sampledNext == lastCall'.op = "measureFPS" /\ Len(fpsHistory') >= MinSamples
totalNext == Sum(fpsHistory')
countNext == Len(fpsHistory')

\* C10 (as stated): the evaluation of a history of at least 5 samples whose
\* mean is at least 30 and below 50 makes a high tier medium and leaves a
\* medium or low tier as it is.
C10_MeanBelow50DemotesHigh ==
    [][(sampledNext /\ 30 * countNext <= totalNext /\ totalNext < 50 * countNext) =>
         deviceTier' = IF deviceTier = "high" THEN "medium" ELSE deviceTier]_vars

\* C10 (amended): the same for a history whose mean rounded to the nearest
\* integer (halves up) is at least 30 and below 50, that is whose mean is at
\* least 29.5 and below 49.5.
C10_RoundedMeanBelow50DemotesHigh ==
    [][(sampledNext /\ 59 * countNext <= 2 * totalNext
                    /\ 2 * totalNext < 99 * countNext) =>
         deviceTier' = IF deviceTier = "high" THEN "medium" ELSE deviceTier]_vars

C10_Witness ==
    /\ sampled
    /\ 59 * count <= 2 * total
    /\ 2 * total < 99 * count
    /\ lastCall.ret
    /\ deviceTier = "medium"

tierRank(t) == CASE t = "low" -> 0 [] t = "medium" -> 1 [] OTHER -> 2

\* C11 (as stated): the evaluation of a history of at least 5 samples makes
\* a non-high tier high exactly when the mean is at least 58, and a mean
\* below 58 never raises the tier.
C11_RaisedIffMeanAtLeast58 ==
    [][sampledNext =>
         /\ deviceTier # "high" =>
              ((deviceTier' = "high") <=> (58 * countNext <= totalNext))
         /\ totalNext < 58 * countNext =>
              tierRank(deviceTier') <= tierRank(deviceTier)]_vars

\* C11 (amended): the same with the mean rounded to the nearest integer
\* (halves up): a non-high tier becomes high exactly when the mean is at
\* least 57.5, and a mean below 57.5 never raises the tier.
C11_RaisedIffRoundedMeanAtLeast58 ==
    [][sampledNext =>
         /\ deviceTier # "high" =>
              ((deviceTier' = "high") <=> (115 * countNext <= 2 * totalNext))
         /\ 2 * totalNext < 115 * countNext =>
              tierRank(deviceTier') <= tierRank(deviceTier)]_vars

C11_Witness ==
    /\ sampled
    /\ lastCall.ret
    /\ deviceTier = "high"
    /\ 115 * count <= 2 * total
    /\ total < 58 * count

\* C12 (as stated): the evaluation of a history whose mean is at least 50
\* and below 58 while the tier is medium changes neither tier nor policy.
C12_DeadZoneKeepsMedium ==
    [][(sampledNext /\ deviceTier = "medium"
        /\ 50 * countNext <= totalNext /\ totalNext < 58 * countNext) =>
         /\ deviceTier' = deviceTier
         /\ degradation' = degradation]_vars

\* C12 (amended): the evaluation of a history whose mean rounded to the
\* nearest integer (halves up) is at least 50 and below 58, that is whose
\* mean is at least 49.5 and below 57.5, changes neither the tier nor the
\* policy when the tier is medium or high, so the tier does not move between
\* medium and high inside that band.
C12_RoundedDeadZoneKeepsTier ==
    [][(sampledNext /\ deviceTier \in {"medium", "high"}
        /\ 99 * countNext <= 2 * totalNext /\ 2 * totalNext < 115 * countNext) =>
         /\ deviceTier' = deviceTier
         /\ degradation' = degradation]_vars

C12_Witness ==
    /\ sampled
    /\ deviceTier = "medium"
    /\ ~lastCall.ret
    /\ 99 * count <= 2 * total
    /\ 2 * total < 115 * count
    /\ count > MinSamples

\* C13: a sampling step that leaves the history with fewer than 5 entries
\* (the appended sample included) changes neither the tier nor the policy,
\* whatever the samples are.
C13_NoTransitionBelowFiveSamples ==
    [][(lastCall'.op = "measureFPS" /\ Len(fpsHistory') < MinSamples) =>
         /\ deviceTier' = deviceTier
         /\ degradation' = degradation
         /\ ~lastCall'.ret]_vars

C13_Witness ==
    /\ lastCall.op = "measureFPS"
    /\ count = MinSamples - 1
    /\ total < 30 * count
    /\ deviceTier = "high"

\* C14 (as stated): the evaluation of a history of at least 5 samples whose
\* rounded average is at least 58, with a prior tier that is not high, makes
\* the tier high and limitConcurrentAnimations 5.
C14_RecoveryGivesLimit5 ==
    [][(sampledNext /\ 115 * countNext <= 2 * totalNext /\ deviceTier # "high") =>
         /\ deviceTier' = "high"
         /\ degradation'.limitConcurrentAnimations = 5]_vars

\* C14 (amended): under the same conditions the tier becomes high, and
\* limitConcurrentAnimations becomes 5 when reducedMotion is false; when
\* reducedMotion is true the limit is 1.
C14_RecoveryGivesLimit5UnlessReducedMotion ==
    [][(sampledNext /\ 115 * countNext <= 2 * totalNext /\ deviceTier # "high") =>
         /\ deviceTier' = "high"
         /\ lastCall'.ret
         /\ degradation'.limitConcurrentAnimations =
                IF isReducedMotion THEN 1 ELSE 5]_vars

C14_Witness ==
    /\ sampled
    /\ lastCall.ret
    /\ deviceTier = "high"
    /\ ~isReducedMotion
    /\ limit = 5
    /\ 58 * count <= total

detected == lastCall.op \in {"init", "resize"}
coresRead == IF env.cores = 0 THEN 2 ELSE env.cores
memoryRead == IF env.memory = 0 THEN 4 ELSE env.memory

\* C15: after detectDevicePerformance measured duration d, the tier is low
\* when d > 100, medium when 50 < d <= 100, and for d <= 50 it is medium
\* when the core count read is <= 2 or the memory read is <= 2 and high
\* otherwise; medium and low results are not demoted.
C15_BenchmarkClassification ==
    detected =>
        /\ lastCall.arg > 100 => deviceTier = "low"
        /\ (50 < lastCall.arg /\ lastCall.arg <= 100) => deviceTier = "medium"
        /\ lastCall.arg <= 50 =>
             deviceTier = IF coresRead <= 2 \/ memoryRead <= 2
                          THEN "medium" ELSE "high"

C15_Witness ==
    /\ lastCall.op = "resize"
    /\ lastCall.arg = 50
    /\ env.cores = 4
    /\ env.memory = 2
    /\ deviceTier = "medium"

\* C16 (as stated): on a host that exposes neither core count nor device
\* memory, a benchmark duration <= 50 yields tier high.
C16_AbsentHintsKeepHigh ==
    (detected /\ env.cores = 0 /\ env.memory = 0 /\ lastCall.arg <= 50) =>
        deviceTier = "high"

\* C16 (amended): an absent device memory is read as 4 GB and does not by
\* itself demote (more than 2 cores, duration <= 50 yields high); an absent
\* core count is read as 2 cores and does demote (duration <= 50 yields
\* medium).
C16_AbsentCoresDemoteAbsentMemoryDoesNot ==
    (detected /\ lastCall.arg <= 50) =>
        /\ (env.memory = 0 /\ env.cores > 2) => deviceTier = "high"
        /\ env.cores = 0 => deviceTier = "medium"

C16_Witness ==
    /\ lastCall.op = "init"
    /\ lastCall.arg <= 50
    /\ env.memory = 0
    /\ env.cores = 4
    /\ deviceTier = "high"

lowEndHost ==
    \/ env.mobile
    \/ coresRead <= 2
    \/ memoryRead <= 2
    \/ env.effectiveType \in {"slow-2g", "2g"}

\* C17: detection turns reducedMotion on when the host is mobile or low-end
\* and never turns off what the media query reports; afterwards
\* reducedMotion changes only in a preference-change callback, which sets it
\* to the reported value, so it goes from true to false only on a report of
\* 'no reduce'; resize, sampling, visibility and admission leave it alone.
C17_ReducedMotionOneDirectional ==
    [][/\ lastCall'.op = "init" =>
            /\ env.matches => isReducedMotion'
            /\ lowEndHost => isReducedMotion'
            /\ isReducedMotion' => (env.matches \/ lowEndHost)
       /\ (initialized /\ isReducedMotion' # isReducedMotion) =>
            lastCall'.op = "preference"
       /\ lastCall'.op = "preference" => isReducedMotion' = env'.matches
       /\ (isReducedMotion /\ ~isReducedMotion') =>
            (lastCall'.op = "preference" /\ ~env'.matches)]_vars

C17_Witness ==
    /\ lastCall.op = "preference"
    /\ env.mobile
    /\ ~isReducedMotion
    /\ fpsHistory # <<>>

\* C18: animate returns a real handle iff should-animate holds (no reduced
\* motion, tier not low) and the ticket, if one is given, is admitted;
\* otherwise it invokes callback(1) once, schedules no frame, leaves the
\* active set as it was, and returns a handle whose invocation changes
\* nothing.
C18_SkippedAnimationJumpsToEnd ==
    [][/\ lastCall'.op = "animate" =>
            LET admitted == /\ ~isReducedMotion
                            /\ deviceTier # "low"
                            /\ (lastCall'.id = NoId \/ size < limit)
            IN  /\ lastCall'.ret = admitted
                /\ ~admitted =>
                     /\ lastCall'.progress = AnimDuration
                     /\ anims'[lastCall'.anim].phase = "noop"
                     /\ activeAnimations' = activeAnimations
       /\ (lastCall'.op = "cancel" /\ anims[lastCall'.anim].phase = "noop") =>
            UNCHANGED <<initialized, env, deviceTier, isReducedMotion, degradation,
                        activeAnimations, fps, fpsHistory, anims>>]_vars

C18_Witness ==
    /\ lastCall.op = "animate"
    /\ ~lastCall.ret
    /\ lastCall.id # NoId
    /\ lastCall.progress = AnimDuration
    /\ ~isReducedMotion
    /\ deviceTier = "medium"
    /\ size = limit

running(a) == anims[a].phase = "running"

\* C19: with every requested frame delivered and timestamps advancing, an
\* admitted animation does not stay in flight for ever: unless it is
\* cancelled it reaches the frame that delivers progress 1; that frame
\* schedules no further frame and unregisters the ticket, and an animation
\* completes only by such a frame.
C19_AdmittedAnimationCompletes ==
    /\ \A a \in AnimPair : running(a) ~> ~running(a)
    /\ [][\A a \in DOMAIN anims :
            /\ (lastCall'.op = "frame" /\ lastCall'.anim = a
                /\ lastCall'.progress = AnimDuration) =>
                 /\ anims'[a].phase \in {"done", "cancelled"}
                 /\ anims[a].id # NoId => anims[a].id \notin activeAnimations'
            /\ (anims'[a].phase = "done" /\ anims[a].phase # "done") =>
                 /\ lastCall'.op = "frame"
                 /\ lastCall'.anim = a
                 /\ lastCall'.progress = AnimDuration
                 /\ ~lastCall'.ret
            /\ (running(a) /\ lastCall'.op = "frame" /\ lastCall'.anim = a
                /\ ~lastCall'.ret /\ lastCall'.progress < AnimDuration) =>
                 /\ anims'[a].phase = "running"
                 /\ anims'[a].elapsed = lastCall'.progress]_vars

C19_Witness ==
    \E a \in DOMAIN anims :
        /\ lastCall.op = "frame"
        /\ lastCall.anim = a
        /\ lastCall.progress = AnimDuration
        /\ ~lastCall.ret
        /\ anims[a].phase = "done"
        /\ anims[a].id # NoId
        /\ anims[a].id \notin activeAnimations

\* C20: cancelling an in-flight animation removes its ticket at once and
\* stops delivery: an outside cancel leaves no frame pending; a cancel made
\* inside the callback leaves at most one pending tick, and that tick
\* invokes no callback, changes nothing and schedules nothing.
C20_CancelStopsDelivery ==
    [][\A a \in DOMAIN anims :
         /\ (lastCall'.op = "cancel" /\ lastCall'.anim = a /\ running(a)) =>
              /\ anims'[a].phase = "cancelled"
              /\ anims[a].id \notin activeAnimations'
         /\ (lastCall'.op = "frame" /\ lastCall'.anim = a /\ running(a)
             /\ lastCall'.ret) =>
              /\ anims'[a].phase \in {"zombie", "cancelled"}
              /\ anims[a].id \notin activeAnimations'
         /\ (lastCall'.op = "frame" /\ lastCall'.anim = a
             /\ anims[a].phase = "zombie") =>
              /\ lastCall'.progress = -1
              /\ anims'[a].phase = "cancelled"
              /\ activeAnimations' = activeAnimations]_vars

\* C21: invoking the cancel handle again, after a first cancellation or
\* after the animation completed, changes neither the active set nor any
\* other animation, also when the ticket id is in use again.
C21_CancelIdempotent ==
    [][\A a \in DOMAIN anims :
         (/\ lastCall'.op = "cancel"
          /\ lastCall'.anim = a
          /\ anims[a].phase \in {"cancelled", "done", "zombie"}) =>
            /\ activeAnimations' = activeAnimations
            /\ \A b \in DOMAIN anims \ {a} : anims'[b] = anims[b]]_vars

\* C22: a page-hidden event empties the active set in one step and leaves
\* the animations (no cancellation), tier, reducedMotion, policy, mirrored
\* channels and both histories as they were; a page-visible event changes
\* no state at all.
C22_HiddenClearsVisibleChangesNothing ==
    [][/\ lastCall'.op = "hidden" =>
            /\ activeAnimations' = {}
            /\ UNCHANGED <<initialized, env, deviceTier, isReducedMotion,
                           degradation, css, fps, fpsHistory, longTasks,
                           taskClock, anims, isMonitoring, fpsChains>>
       /\ lastCall'.op = "visible" =>
            UNCHANGED <<initialized, env, deviceTier, isReducedMotion,
                        degradation, css, fps, fpsHistory, longTasks,
                        taskClock, anims, isMonitoring, fpsChains,
                        activeAnimations>>]_vars

C22_Witness ==
    /\ lastCall.op = "hidden"
    /\ activeAnimations = {}
    /\ \E a \in DOMAIN anims : inFlight(a) /\ anims[a].elapsed >= 0
    /\ longTasks # <<>>
    /\ fpsHistory # <<>>

\* C23: right after a registerAnimation refused at |active| = limit, an
\* unregisterAnimation of an active ticket leaves one slot free under the
\* same limit, and the registerAnimation of a new id that follows it
\* returns true and admits the id.
C23_UnregisterFreesOneSlot ==
    [][/\ (/\ lastCall.op = "register" /\ ~lastCall.ret /\ size = limit
           /\ lastCall'.op = "unregister"
           /\ lastCall'.id \in activeAnimations) =>
            /\ Cardinality(activeAnimations') = limit - 1
            /\ degradation' = degradation
       /\ (/\ lastCall.op = "unregister" /\ size = limit - 1
           /\ lastCall'.op = "register"
           /\ lastCall'.id \notin activeAnimations) =>
            /\ lastCall'.ret
            /\ activeAnimations' = activeAnimations \cup {lastCall'.id}
            /\ degradation' = degradation]_vars

C23_Witness ==
    /\ lastCall.op = "register"
    /\ lastCall.ret
    /\ lastCall.id \in activeAnimations
    /\ size = limit
    /\ limit = 2

\* C24: a measureFPS callback whose log call failed has still requested the
\* next frame, so the sampling chain stays armed.
C24_LoggingFailureKeepsSampling ==
    [][(lastCall'.op = "measureFPS" /\ lastCall'.threw) =>
         /\ fpsChains' = fpsChains
         /\ fpsChains' > 0]_vars

\* C25: the average reported is 60 on an empty history, and otherwise the
\* integer nearest to the mean of all retained samples (halves up).
C25_AverageIsRoundedMean ==
    lastCall.op = "report" =>
        IF count = 0
        THEN lastCall.arg = 60
        ELSE /\ (2 * lastCall.arg - 1) * count <= 2 * total
             /\ 2 * total < (2 * lastCall.arg + 1) * count

C25_Witness ==
    /\ lastCall.op = "report"
    /\ count > 0
    /\ 2 * total = 115 * count
    /\ lastCall.arg = 58

policyOf(tier, rm) ==
    IF rm
    THEN [disableComplexAnimations |-> TRUE, reduceAnimationDuration |-> FALSE,
          disableParallax |-> TRUE, reduceBlurEffects |-> TRUE,
          limitConcurrentAnimations |-> 1]
    ELSE CASE tier = "low" -> AllOn(1)
           [] tier = "medium" ->
                [disableComplexAnimations |-> FALSE,
                 reduceAnimationDuration |-> TRUE,
                 disableParallax |-> TRUE,
                 reduceBlurEffects |-> FALSE,
                 limitConcurrentAnimations |-> 2]
           [] OTHER ->
                [disableComplexAnimations |-> FALSE,
                 reduceAnimationDuration |-> FALSE,
                 disableParallax |-> FALSE,
                 reduceBlurEffects |-> FALSE,
                 limitConcurrentAnimations |-> 5]

channelsOf(policy, tier, rm) ==
    [durationFast |-> IF policy.reduceAnimationDuration THEN 100 ELSE 150,
     durationBase |-> IF policy.reduceAnimationDuration THEN 150 ELSE 300,
     durationSlow |-> IF policy.reduceAnimationDuration THEN 250 ELSE 500,
     glassBlur |-> IF policy.reduceBlurEffects THEN 10 ELSE 20,
     classes |->
        {c \in PerfClasses :
            \/ c = "perf-low" /\ tier = "low"
            \/ c = "perf-medium" /\ tier = "medium"
            \/ c = "perf-high" /\ tier = "high"
            \/ c = "reduced-motion" /\ rm
            \/ c = "no-complex-animations" /\ policy.disableComplexAnimations
            \/ c = "no-parallax" /\ policy.disableParallax
            \/ c = "reduced-blur" /\ policy.reduceBlurEffects}]

\* C26: in every state a callback can observe after init, the policy is
\* the one derived from the current tier and reducedMotion, and the mirrored
\* variables and classes are the ones derived from that policy: sample
\* append, evaluation, recompute and mirroring are one step.
C26_PolicyAndChannelsConsistent ==
    initialized =>
        /\ degradation = policyOf(deviceTier, isReducedMotion)
        /\ css = channelsOf(degradation, deviceTier, isReducedMotion)

C26_Witness ==
    /\ lastCall.op = "frame"
    /\ deviceTier = "low"
    /\ count >= MinSamples
    /\ "perf-low" \in css.classes
    /\ "perf-high" \notin css.classes
    /\ limit = 1

\* C27: an evaluation that leaves the tier as it was (low to low included)
\* recomputes nothing: policy and mirrored channels are unchanged; sampling
\* recomputes the policy only in a step that changes the tier.
C27_NoRecomputeWithoutTierChange ==
    [][lastCall'.op = "measureFPS" =>
         /\ deviceTier' = deviceTier =>
              /\ ~lastCall'.ret
              /\ degradation' = degradation
              /\ css' = css
         /\ lastCall'.ret => deviceTier' # deviceTier]_vars

C27_Witness ==
    /\ sampled
    /\ ~lastCall.ret
    /\ deviceTier = "low"
    /\ 2 * total < 59 * count
    /\ count > MinSamples

\* C28: while monitoring is active a measureFPS request is always pending:
\* every measureFPS callback, the one closing a window included, leaves the
\* chain armed; with every requested frame delivered, a window is closed
\* and a sample appended again and again, and frames keep running after it.
C28_SamplingChainNeverStops ==
    /\ [](isMonitoring => fpsChains > 0)
    /\ [][lastCall'.op \in {"measureFrame", "measureFPS"} =>
             fpsChains' = fpsChains]_vars
    /\ (isMonitoring /\ lastCall.op # "measureFPS") ~> lastCall.op = "measureFPS"
    /\ (isMonitoring /\ lastCall.op = "measureFPS") ~> lastCall.op = "measureFrame"

C28_Witness ==
    /\ isMonitoring
    /\ lastCall.op = "measureFrame"
    /\ count = HistoryCap
    /\ fpsChains = 1

\* C29: between callbacks the FPS history holds at most 30 samples; a
\* sample appended to a history of 30 evicts the oldest one and the others
\* keep their order, and below 30 the sample is appended at the end.
C29_HistoryCappedFIFO ==
    /\ [](Len(fpsHistory) <= 30)
    /\ [][lastCall'.op = "measureFPS" =>
             /\ fpsHistory'[Len(fpsHistory')] = fps'
             /\ Len(fpsHistory) = 30 =>
                  /\ Len(fpsHistory') = 30
                  /\ \A i \in 1..29 : fpsHistory'[i] = fpsHistory[i + 1]
             /\ Len(fpsHistory) < 30 =>
                  /\ Len(fpsHistory') = Len(fpsHistory) + 1
                  /\ \A i \in 1..Len(fpsHistory) :
                        fpsHistory'[i] = fpsHistory[i]]_vars

C29_Witness ==
    /\ lastCall.op = "measureFPS"
    /\ count = 30
    /\ fpsHistory[1] = 50
    /\ fpsHistory[30] = 50
    /\ slowWindows(fpsHistory) = 2

\* the records made of a list of entries whose first one started at clock
recordsOf(entries, clock) ==
    SelectSeq([i \in 1..Len(entries) |->
                  [duration |-> entries[i], startTime |-> clock + i - 1]],
              LAMBDA r : r.duration > 50)

\* C30: the records appended by the observer are exactly the delivered
\* entries longer than 50 ms, in arrival order; the history holds at most
\* 10 records, the most recent ones; and the observer changes neither tier,
\* reducedMotion, policy, mirrored channels nor the active set.
C30_LongTasksOver50Capped10 ==
    /\ [](/\ Len(longTasks) <= 10
          /\ \A i \in DOMAIN longTasks :
                /\ longTasks[i].duration > 50
                /\ i > 1 => longTasks[i - 1].startTime < longTasks[i].startTime)
    /\ [][lastCall'.op = "longtask" =>
             LET all == longTasks \o recordsOf(lastCall'.entries, taskClock)
             IN  /\ longTasks' =
                        IF Len(all) > 10
                        THEN SubSeq(all, Len(all) - 9, Len(all))
                        ELSE all
                 /\ UNCHANGED <<deviceTier, isReducedMotion, degradation, css,
                                activeAnimations, fpsHistory>>]_vars

C30_Witness ==
    /\ lastCall.op = "longtask"
    /\ lastCall.entries = <<80>>
    /\ taskClock = 11
    /\ Len(longTasks) = 10
    /\ longTasks[1] = [duration |-> 80, startTime |-> 1]
    /\ activeAnimations # {}

\* C31: resize handling is debounced. A resize event clears the pending
\* timer and sets a new one of 500 ms, so each event of a burst restarts the
\* delay; the re-detection runs only from a timer whose 500 ms have passed
\* since the last event, it leaves no timer pending (one re-detection for
\* the burst), and in the same callback the tier measured is followed by
\* the full policy recompute and its mirroring; no other callback touches
\* the timer, which only counts down.
C31_ResizeDebounced ==
    [][/\ lastCall'.op = "resizeEvent" => resizeTimeout' = ResizeDelay
       /\ lastCall'.op = "resize" =>
            /\ resizeTimeout = 0
            /\ resizeTimeout' = -1
            /\ deviceTier' = detectDevicePerformance(lastCall'.arg, env)
            /\ degradation' = policyOf(deviceTier', isReducedMotion)
            /\ css' = channelsOf(degradation', deviceTier', isReducedMotion)
       /\ lastCall'.op \notin {"resizeEvent", "resize"} =>
            /\ resizeTimeout' <= resizeTimeout
            /\ resizeTimeout' >= 0 <=> resizeTimeout >= 0]_vars

\* the timer of a burst has fired: the re-detection ran, moved the tier to
\* low, and no timer is pending
C31_Witness ==
    /\ lastCall.op = "resize"
    /\ resizeTimeout = -1
    /\ deviceTier = "low"
    /\ degradation.limitConcurrentAnimations = 1

\* the root element carries what the policy in force says and nothing else
Mirrored ==
    /\ css.classes \cap {"perf-low", "perf-medium", "perf-high"}
          = {CASE deviceTier = "low" -> "perf-low"
               [] deviceTier = "medium" -> "perf-medium"
               [] OTHER -> "perf-high"}
    /\ "reduced-motion" \in css.classes <=> isReducedMotion
    /\ "no-complex-animations" \in css.classes
          <=> degradation.disableComplexAnimations
    /\ "no-parallax" \in css.classes <=> degradation.disableParallax
    /\ "reduced-blur" \in css.classes <=> degradation.reduceBlurEffects
    /\ <<css.durationFast, css.durationBase, css.durationSlow>>
          = IF degradation.reduceAnimationDuration
            THEN <<100, 150, 250>> ELSE <<150, 300, 500>>
    /\ css.glassBlur = IF degradation.reduceBlurEffects THEN 10 ELSE 20

\* a callback that ran applyDegradationStrategy
appliesPolicy(call) ==
    \/ call.op \in {"init", "preference"}
    \/ call.op = "resize" /\ ~call.threw
    \/ call.op = "measureFPS" /\ call.ret

\* C32: after every policy application the mirrored channels replace the
\* earlier ones completely: exactly one of perf-low, perf-medium, perf-high
\* is set and names the current tier; reduced-motion, no-complex-animations,
\* no-parallax and reduced-blur are set iff reducedMotion and the policy
\* booleans hold; the three durations and the blur radius carry the reduced
\* values iff reduceAnimationDuration and reduceBlurEffects hold; nothing of
\* the earlier policy survives.
C32_ChannelsReplaced ==
    [][appliesPolicy(lastCall') => Mirrored']_vars

\* a window boundary has moved the tier back to high after a reduced policy
\* and the root element carries the full durations again
C32_Witness ==
    /\ lastCall.op = "measureFPS"
    /\ lastCall.ret
    /\ deviceTier = "high"
    /\ ~isReducedMotion
    /\ css.durationBase = 300
    /\ css.classes = {"perf-high"}

\* C33: live sampling never moves the tier from low to medium. Every tier
\* change made by a window evaluation is high->medium, high->low,
\* medium->low, medium->high or low->high, and a window evaluation leaves
\* the tier at medium by assignment only when it found it at high.
C33_SamplingNeverLowToMedium ==
    [][lastCall'.op = "measureFPS" /\ deviceTier' # deviceTier =>
         /\ <<deviceTier, deviceTier'>> \in
               {<<"high", "medium">>, <<"high", "low">>, <<"medium", "low">>,
                <<"medium", "high">>, <<"low", "high">>}
         /\ deviceTier' = "medium" => deviceTier = "high"]_vars

\* a window evaluation found the tier at low and the rounded mean of five or
\* more samples between the low and the medium threshold, and left it low
C33_Witness ==
    /\ lastCall.op = "measureFPS"
    /\ ~lastCall.ret
    /\ deviceTier = "low"
    /\ Len(fpsHistory) >= MinSamples
    /\ getAverageFPS(fpsHistory) >= lowFPS
    /\ getAverageFPS(fpsHistory) < mediumFPS

\* C34 as claimed: once a window evaluation has forced the tier to low, the
\* tier leaves low only at a window boundary whose rounded mean is >= 58,
\* whatever other callback runs.
C34_LowUntilRecoveryWindow ==
    [][/\ lastCall.op = "measureFPS"
       /\ lastCall.ret
       /\ deviceTier = "low"
       /\ deviceTier' # "low"
       => /\ lastCall'.op = "measureFPS"
          /\ getAverageFPS(fpsHistory') >= highFPS]_vars

\* C34: a tier of low is left only in two ways: a window boundary whose
\* history has five or more samples of rounded mean >= 58 moves it to high,
\* or a resize re-detection whose benchmark took at most 100 ms sets it to
\* the tier measured; a preference change, a visibility change or an
\* admission never raises it.
C34_LowLeftByRecoveryOrResize ==
    [][deviceTier = "low" /\ deviceTier' # "low" =>
         \/ /\ lastCall'.op = "measureFPS"
            /\ deviceTier' = "high"
            /\ Len(fpsHistory') >= MinSamples
            /\ getAverageFPS(fpsHistory') >= highFPS
         \/ /\ lastCall'.op = "resize"
            /\ lastCall'.arg <= 100
            /\ deviceTier' = IF lastCall'.arg <= 50 THEN "high" ELSE "medium"]_vars

\* a resize re-detection has set the tier to high while the history that
\* made the sampler force it to low is still the one retained
C34_Witness ==
    /\ lastCall.op = "resize"
    /\ deviceTier = "high"
    /\ Len(fpsHistory) >= MinSamples
    /\ getAverageFPS(fpsHistory) < lowFPS

\* every retained sample is at least / below a threshold
allAtLeast(history, threshold) == \A i \in DOMAIN history : history[i] >= threshold
allBelow(history, threshold) == \A i \in DOMAIN history : history[i] < threshold

\* C35 as claimed: once every retained sample is at least 58 and there are
\* five of them (at the latest 30 windows after the samples started to be
\* at least 58), the tier is high and stays high in every state while the
\* samples stay that fast; symmetrically with samples below 30 and low.
C35_StaysHighWhileFast ==
    initialized /\ Len(fpsHistory) >= MinSamples =>
        /\ allAtLeast(fpsHistory, highFPS) => deviceTier = "high"
        /\ allBelow(fpsHistory, lowFPS) => deviceTier = "low"

\* C35: bounded response at the window boundaries. The history retains at
\* most the last 30 samples, so 30 windows after the samples started to be
\* at least 58 every retained sample is; at every window boundary at which
\* the history holds five or more samples, all of them at least 58, the
\* tier is high when the callback returns, and symmetrically it is low when
\* all of them are below 30. Between two boundaries a resize re-detection
\* can set another tier, which the next boundary corrects.
C35_BoundedResponseAtBoundaries ==
    [][lastCall'.op = "measureFPS" /\ Len(fpsHistory') >= MinSamples =>
         /\ Len(fpsHistory') <= HistoryCap
         /\ allAtLeast(fpsHistory', highFPS) => deviceTier' = "high"
         /\ allBelow(fpsHistory', lowFPS) => deviceTier' = "low"]_vars

\* a window boundary that found a tier other than high and left a full
\* history of 30 samples, all of them at least 58: the tier is high again
C35_Witness ==
    /\ lastCall.op = "measureFPS"
    /\ lastCall.ret
    /\ Len(fpsHistory) = HistoryCap
    /\ allAtLeast(fpsHistory, highFPS)
    /\ deviceTier = "high"

\* C36 as claimed: between stopMonitoring and the next startMonitoring no
\* measureFPS callback closes a window: no sample is appended and sampling
\* causes no tier transition and no policy recompute.
C36_NoSamplingWhileStopped ==
    [][lastCall'.op = "measureFPS" => isMonitoring]_vars

\* C37 as claimed: whatever the sequence of init, startMonitoring and
\* stopMonitoring calls, at most one measureFPS chain and at most one
\* sampling interval are live, and startMonitoring called while
\* isMonitoring is true starts nothing.
C37_AtMostOneChainAndTimer ==
    /\ fpsChains <= 1
    /\ samplerTimers <= 1
    /\ lastCall.op = "start" /\ ~lastCall.ret => isMonitoring

\* C38: tickets are counted by distinct id. A registerAnimation call, made
\* directly or by animate, for an id that is already active leaves the
\* active set as it was and returns true iff |active| < limit; and an
\* animation that holds an id and completes or is cancelled leaves that id
\* outside the set, also while another animation with the same id is still
\* in flight: the two held one slot and the first to end released it.
C38_TicketsByDistinctId ==
    [][/\ /\ \/ lastCall'.op = "register"
             \/ lastCall'.op = "animate"
                  /\ shouldAnimate(deviceTier, isReducedMotion)
          /\ lastCall'.id \in activeAnimations
          => /\ activeAnimations' = activeAnimations
             /\ lastCall'.ret <=> size < limit
       /\ \A a \in DOMAIN anims :
            /\ lastCall'.op \in {"frame", "cancel"}
            /\ lastCall'.anim = a
            /\ anims[a].phase = "running"
            /\ anims'[a].phase # "running"
            /\ anims[a].id # NoId
            => anims[a].id \notin activeAnimations']_vars

\* two animations were admitted with the same id and one of them has
\* delivered its last frame: the id is gone while the other is in flight
C38_Witness ==
    /\ lastCall.op = "frame"
    /\ lastCall.progress = AnimDuration
    /\ lastCall.id # NoId
    /\ lastCall.id \notin activeAnimations
    /\ \E b \in DOMAIN anims :
         /\ b # lastCall.anim
         /\ anims[b].phase = "running"
         /\ anims[b].id = lastCall.id
         /\ anims[b].elapsed >= 0

\* C39: for an admitted animation whose frames arrive with advancing
\* timestamps, every progress value handed to the callback by the frame
\* loop lies in [0, 1] (0..300 ms of 300), is not below the one delivered
\* before, and the value 1 is the last one: the frame that delivers it ends
\* the animation, a frame that delivers less leaves it scheduled, and only
\* a scheduled animation is handed a value.
C39_ProgressMonotoneEndsWithOne ==
    [][\A a \in DOMAIN anims :
         lastCall'.op = "frame" /\ lastCall'.anim = a /\ lastCall'.progress # -1 =>
            /\ anims[a].phase = "running"
            /\ lastCall'.progress >= 0
            /\ lastCall'.progress <= AnimDuration
            /\ lastCall'.progress >= anims[a].elapsed
            /\ lastCall'.progress = AnimDuration
                  <=> anims'[a].phase \in {"done", "cancelled"}
            /\ lastCall'.progress < AnimDuration
                  <=> anims'[a].phase \in {"running", "zombie"}]_vars

\* an animation without a ticket received 0, then a value strictly between
\* 0 and 1, and is still scheduled
C39_Witness ==
    /\ lastCall.op = "frame"
    /\ lastCall.id = NoId
    /\ lastCall.progress = 150
    /\ anims[lastCall.anim].phase = "running"
    /\ anims[lastCall.anim].elapsed = 150

====
